---- MODULE Spec2Model ----
(***************************************************************************)
(* Model of the dipcoin python client: the AMM pricing functions of        *)
(* dipcoin/math.py, computed in Python's decimal arithmetic (28            *)
(* significant digits, round-half-even), and the token-type ordering of    *)
(* dipcoin/utils.py.                                                       *)
(*                                                                         *)
(* Numbers wider than TLC's integers are sequences of decimal digits,      *)
(* most significant digit first, without leading zeros; <<>> is zero.      *)
(***************************************************************************)
EXTENDS Integers, Sequences, FiniteSets, TLC

---------------------------------------------------------------------------
(* Unbounded naturals (the coefficient of a Decimal, a Python int).        *)

Max(a, b) == IF a >= b THEN a ELSE b

Min(a, b) == IF a <= b THEN a ELSE b

Zeros(k) == SubSeq([i \in 1..k |-> 0], 1, k)

\* s without its leading zeros
NStrip(s) ==
    LET nz == {i \in 1..Len(s) : s[i] # 0}
    IN  IF nz = {} THEN <<>>
        ELSE SubSeq(s, CHOOSE i \in nz : \A j \in nz : i <= j, Len(s))

NPad(s, n) == Zeros(n - Len(s)) \o s

RECURSIVE NFromInt(_)
NFromInt(n) == IF n = 0 THEN <<>> ELSE Append(NFromInt(n \div 10), n % 10)

\* -1, 0, 1 as a < b, a = b, a > b
NCmp(a, b) ==
    IF Len(a) < Len(b) THEN -1
    ELSE IF Len(a) > Len(b) THEN 1
    ELSE LET diff == {i \in 1..Len(a) : a[i] # b[i]}
             i    == CHOOSE k \in diff : \A j \in diff : k <= j
         IN  IF diff = {} THEN 0 ELSE IF a[i] < b[i] THEN -1 ELSE 1

\* Digits lo..hi of a + b and the carry out of them, given the carry into
\* digit hi; the range is split in halves to keep the evaluation shallow,
\* and the low half R is evaluated before the high half L that needs its
\* carry.
RECURSIVE NAddRange(_, _, _, _, _)
NAddRange(a, b, lo, hi, carry) ==
    IF lo = hi
    THEN LET t == a[lo] + b[lo] + carry
         IN  [d |-> <<t % 10>>, c |-> t \div 10]
    ELSE LET mid == (lo + hi) \div 2
             R   == NAddRange(a, b, mid + 1, hi, carry)
             L   == NAddRange(a, b, lo, mid, R.c)
         IN  CASE R.c >= 0 -> [d |-> L.d \o R.d, c |-> L.c]

\* the digits of a range result with its carry out in front
NCarryOut(r) == IF r.c = 0 THEN r.d ELSE <<r.c>> \o r.d

NAdd(a, b) ==
    LET n == Max(Len(a), Len(b))
    IN  IF n = 0 THEN <<>>
        ELSE NCarryOut(NAddRange(NPad(a, n), NPad(b, n), 1, n, 0))

RECURSIVE NSubRange(_, _, _, _, _)
NSubRange(a, b, lo, hi, borrow) ==
    IF lo = hi
    THEN LET t == a[lo] - b[lo] - borrow
         IN  [d |-> <<IF t < 0 THEN t + 10 ELSE t>>,
              c |-> IF t < 0 THEN 1 ELSE 0]
    ELSE LET mid == (lo + hi) \div 2
             R   == NSubRange(a, b, mid + 1, hi, borrow)
             L   == NSubRange(a, b, lo, mid, R.c)
         IN  CASE R.c >= 0 -> [d |-> L.d \o R.d, c |-> L.c]

\* a - b for a >= b
NSub(a, b) ==
    LET n == Len(a)
    IN  IF n = 0 THEN <<>>
        ELSE NStrip(NSubRange(a, NPad(b, n), 1, n, 0).d)

RECURSIVE NMulDigitRange(_, _, _, _, _)
NMulDigitRange(a, d, lo, hi, carry) ==
    IF lo = hi
    THEN LET t == a[lo] * d + carry
         IN  [d |-> <<t % 10>>, c |-> t \div 10]
    ELSE LET mid == (lo + hi) \div 2
             R   == NMulDigitRange(a, d, mid + 1, hi, carry)
             L   == NMulDigitRange(a, d, lo, mid, R.c)
         IN  CASE R.c >= 0 -> [d |-> L.d \o R.d, c |-> L.c]

\* a * d for a digit d
NMulDigit(a, d) ==
    IF d = 0 \/ a = <<>> THEN <<>>
    ELSE NCarryOut(NMulDigitRange(a, d, 1, Len(a), 0))

\* a * 10^k
NShift(a, k) == IF a = <<>> THEN <<>> ELSE a \o Zeros(k)

\* a times the number written by digits lo..hi of b
RECURSIVE NMulRange(_, _, _, _)
NMulRange(a, b, lo, hi) ==
    IF lo = hi THEN NMulDigit(a, b[lo])
    ELSE LET mid == (lo + hi) \div 2
         IN  NAdd(NShift(NMulRange(a, b, lo, mid), hi - mid),
                  NMulRange(a, b, mid + 1, hi))

NMul(a, b) ==
    IF a = <<>> \/ b = <<>> THEN <<>> ELSE NMulRange(a, b, 1, Len(b))

\* One step of long division: the quotient digit of the running remainder
\* r1 by the number whose multiples 1*b .. 9*b are mults, and what is left.
NDivStep(mults, r1) ==
    LET d == Cardinality({k \in 1..9 : NCmp(mults[k], r1) <= 0})
    IN  [q |-> <<d>>, r |-> IF d = 0 THEN r1 ELSE NSub(r1, mults[d])]

\* Long division of digits lo..hi of a, entered with remainder r: the
\* quotient digits and the remainder left.
RECURSIVE NDivRange(_, _, _, _, _)
NDivRange(a, mults, lo, hi, r) ==
    IF lo = hi
    THEN NDivStep(mults, NStrip(Append(r, a[lo])))
    ELSE LET mid == (lo + hi) \div 2
             L   == NDivRange(a, mults, lo, mid, r)
             R   == NDivRange(a, mults, mid + 1, hi, L.r)
         IN  [q |-> L.q \o R.q, r |-> R.r]

\* 1*b .. 9*b
NMultiples(b) == [k \in 1..9 |-> NMulDigit(b, k)]

NQuotRem(qr) == [q |-> NStrip(qr.q), r |-> qr.r]

\* divmod(a, b) for b # 0
NDivMod(a, b) ==
    IF a = <<>> THEN [q |-> <<>>, r |-> <<>>]
    ELSE NQuotRem(NDivRange(a, NMultiples(b), 1, Len(a), <<>>))

NDiv(a, b) == NDivMod(a, b).q

\* the number whose decimal digits are the 9-digit groups of g
RECURSIVE NGroups(_)
NGroups(g) ==
    IF g = <<>> THEN <<>>
    ELSE NAdd(NShift(NGroups(SubSeq(g, 1, Len(g) - 1)), 9),
              NFromInt(g[Len(g)]))

---------------------------------------------------------------------------
(* Python's decimal.Decimal under the default context: a sign, a           *)
(* coefficient and an exponent; every arithmetic result is rounded to Prec *)
(* significant digits, ties to even.                                       *)

Prec == 28

Dec(sign, int, exp) == [sign |-> sign, int |-> int, exp |-> exp]

\* Decimal(str(n)) for a non-negative integer given by its digits
DecOfDigits(s) == Dec(0, s, 0)

\* Decimal(str(n)) for a small non-negative integer
DecOfInt(n) == Dec(0, NFromInt(n), 0)

DecZero == Dec(0, <<>>, 0)

IsZero(d) == d.int = <<>>

Sgn(d) == IF IsZero(d) THEN 0 ELSE IF d.sign = 1 THEN -1 ELSE 1

MagCmp(a, b) ==
    LET e == Min(a.exp, b.exp)
    IN  NCmp(NShift(a.int, a.exp - e), NShift(b.int, b.exp - e))

\* -1, 0, 1 as a < b, a = b, a > b (comparison is by value and exact)
DecCmp(a, b) ==
    IF Sgn(a) # Sgn(b) THEN (IF Sgn(a) < Sgn(b) THEN -1 ELSE 1)
    ELSE IF Sgn(a) = 0 THEN 0
    ELSE IF Sgn(a) = 1 THEN MagCmp(a, b)
    ELSE MagCmp(b, a)

\* Decimal._fix: round the coefficient to Prec digits, ROUND_HALF_EVEN
\* a rounded coefficient that carried into a digit more loses its last one
DecRounded(sign, coeff, exp) ==
    IF Len(coeff) > Prec THEN Dec(sign, SubSeq(coeff, 1, Prec), exp + 1)
    ELSE Dec(sign, coeff, exp)

DecFix(d) ==
    LET n == Len(d.int)
    IN  IF n <= Prec THEN d
        ELSE LET head == SubSeq(d.int, 1, Prec)
                 tail == SubSeq(d.int, Prec + 1, n)
                 half == <<5>> \o Zeros(n - Prec - 1)
                 c    == NCmp(tail, half)
                 up   == c > 0 \/ (c = 0 /\ head[Prec] % 2 = 1)
             IN  DecRounded(d.sign,
                            IF up THEN NAdd(head, <<1>>) ELSE head,
                            d.exp + (n - Prec))

DecNeg(d) == Dec(1 - d.sign, d.int, d.exp)

\* the exact sum
\* the sum of two signed coefficients of the same exponent e
DecSumAligned(sa, ca, sb, cb, e) ==
    LET c == NCmp(ca, cb)
    IN  IF sa = sb THEN Dec(sa, NAdd(ca, cb), e)
        ELSE IF c = 0 THEN Dec(0, <<>>, e)
        ELSE IF c > 0 THEN Dec(sa, NSub(ca, cb), e)
        ELSE Dec(sb, NSub(cb, ca), e)

DecSum(a, b) ==
    LET e == Min(a.exp, b.exp)
    IN  DecSumAligned(a.sign, NShift(a.int, a.exp - e),
                      b.sign, NShift(b.int, b.exp - e), e)

\* Decimal.__add__
DecAdd(a, b) == DecFix(DecSum(a, b))

\* Decimal.__sub__
DecSub(a, b) == DecFix(DecSum(a, DecNeg(b)))

\* Decimal.__mul__
DecMul(a, b) ==
    DecFix(Dec((a.sign + b.sign) % 2, NMul(a.int, b.int), a.exp + b.exp))

\* an exact quotient loses its trailing zeros down to the ideal exponent
DecStripTo(coeff, exp, ideal) ==
    LET nz == {i \in 1..Len(coeff) : coeff[i] # 0}
        tz == Len(coeff) - (CHOOSE i \in nz : \A j \in nz : i >= j)
        k  == IF nz = {} THEN 0 ELSE Min(tz, Max(ideal - exp, 0))
    IN  [int |-> SubSeq(coeff, 1, Len(coeff) - k), exp |-> exp + k]

\* the length of the coefficient as Python stores it ("0" for zero)
IntLen(d) == IF IsZero(d) THEN 1 ELSE Len(d.int)

\* Decimal.__truediv__ for a non-zero divisor: Prec + 1 digits of quotient
\* with a sticky last digit, then rounded
\* the coefficient and exponent kept of the integer quotient and remainder
\* qr: a remainder makes the last digit sticky
DecSticky(qr, exp, ideal) ==
    LET last == IF qr.q = <<>> THEN 0 ELSE qr.q[Len(qr.q)]
    IN  IF qr.r = <<>> THEN DecStripTo(qr.q, exp, ideal)
        ELSE [int |-> IF last % 5 = 0 THEN NAdd(qr.q, <<1>>) ELSE qr.q,
              exp |-> exp]

DecOfCoefficient(sign, ce) == DecFix(Dec(sign, ce.int, ce.exp))

DecQuotient(a, b) ==
    LET sign  == (a.sign + b.sign) % 2
        shift == IntLen(b) - IntLen(a) + Prec + 1
    IN  IF IsZero(a) THEN Dec(sign, <<>>, a.exp - b.exp)
        ELSE DecOfCoefficient(sign,
                 DecSticky(NDivMod(NShift(a.int, Max(shift, 0)),
                                   NShift(b.int, Max(-shift, 0))),
                           a.exp - b.exp - shift, a.exp - b.exp))

\* the outcome of a call: the value returned, or the exception raised
Return(v) == [exc |-> "", val |-> v]

Raise(e) == [exc |-> e, val |-> <<>>]

\* Decimal.__truediv__
DecDiv(a, b) ==
    IF IsZero(b)
    THEN Raise(IF IsZero(a) THEN "DivisionUndefined" ELSE "DivisionByZero")
    ELSE Return(DecQuotient(a, b))

\* int(d): truncation towards zero, as an integer-valued Decimal record
ToInt(d) ==
    LET mag == IF d.exp >= 0 THEN NShift(d.int, d.exp)
               ELSE IF Len(d.int) > -d.exp
                    THEN SubSeq(d.int, 1, Len(d.int) + d.exp)
                    ELSE <<>>
    IN  Dec(IF mag = <<>> THEN 0 ELSE d.sign, mag, 0)

---------------------------------------------------------------------------
(* dipcoin/math.py                                                         *)

FEE_SCALE == DecOfInt(10000)

MAX_FEE_RATE == DecOfInt(10000)

\* 2^64 - 1 = 18446744073709551615
U64_MAX == DecOfDigits(NGroups(<<18, 446744073, 709551615>>))

mul_div(a, b, c) == DecDiv(DecMul(a, b), c)

\* the choice calc_optimal_coin_values makes between its two quotes; the
\* second quote is computed only when the first exceeds coin_y_desired
OptimalOf(coin_x_desired, coin_y_desired, coin_y_returned, coin_x_returned) ==
    IF coin_y_returned.exc # "" THEN coin_y_returned
    ELSE IF DecCmp(coin_y_returned.val, coin_y_desired) <= 0
    THEN Return(<<coin_x_desired, coin_y_returned.val>>)
    ELSE IF coin_x_returned.exc # "" THEN coin_x_returned
    ELSE IF DecCmp(coin_x_returned.val, coin_x_desired) > 0
    THEN Raise("Over limit")
    ELSE Return(<<coin_x_returned.val, coin_y_desired>>)

calc_optimal_coin_values(coin_x_desired, coin_y_desired, coin_x_reserve, coin_y_reserve) ==
    IF IsZero(coin_x_reserve) /\ IsZero(coin_y_reserve)
    THEN Return(<<coin_x_desired, coin_y_desired>>)
    ELSE OptimalOf(coin_x_desired, coin_y_desired,
                   mul_div(coin_x_desired, coin_y_reserve, coin_x_reserve),
                   mul_div(coin_y_desired, coin_x_reserve, coin_y_reserve))

\* int(quotient), an exception of the division passing through
Truncated(quotient) ==
    IF quotient.exc # "" THEN quotient ELSE Return(ToInt(quotient.val))

\* amount + extra for two Python ints (exact)
Plus(amount, extra) ==
    IF amount.exc # "" THEN amount
    ELSE Return(DecSum(amount.val, DecOfInt(extra)))

\* the u64 range check on a computed amount
U64Checked(amount) ==
    IF amount.exc # "" THEN amount
    ELSE IF DecCmp(amount.val, U64_MAX) > 0 THEN Raise("U64 overflow")
    ELSE amount

\* the fee branch of get_amount_out once its arguments are validated
AmountOutAfterFees(coin_in_val_after_fees, reserve_in, reserve_out) ==
    U64Checked(Truncated(
        DecDiv(DecMul(coin_in_val_after_fees, reserve_out),
               DecAdd(DecMul(reserve_in, FEE_SCALE), coin_in_val_after_fees))))

\* the quotient of get_amount_in once its arguments are validated
AmountInQuotient(fee_rate, amount_out, reserve_in, reserve_out) ==
    DecDiv(DecMul(DecMul(reserve_in, amount_out), FEE_SCALE),
           DecMul(DecSub(reserve_out, amount_out),
                  DecSub(FEE_SCALE, fee_rate)))

\* get_amount_in adding 2 where the code adds 1
get_amount_in_plus_two(fee_rate, amount_out, reserve_in, reserve_out) ==
    IF DecCmp(fee_rate, MAX_FEE_RATE) > 0 THEN Raise("Invalid fee rate")
    ELSE IF IsZero(amount_out) THEN Raise("Zero amount")
    ELSE IF IsZero(reserve_in) \/ IsZero(reserve_out)
    THEN Raise("Reserves empty")
    ELSE U64Checked(Plus(Truncated(
             AmountInQuotient(fee_rate, amount_out, reserve_in, reserve_out)),
             2))

\* get_amount_out checking the reserves before the amount
get_amount_out_reserves_first(fee_rate, amount_in, reserve_in, reserve_out) ==
    IF IsZero(fee_rate)
    THEN Truncated(DecDiv(DecMul(reserve_out, amount_in),
                          DecAdd(reserve_in, amount_in)))
    ELSE IF DecCmp(fee_rate, MAX_FEE_RATE) > 0 THEN Raise("Invalid fee rate")
    ELSE IF IsZero(reserve_in) \/ IsZero(reserve_out)
    THEN Raise("Reserves empty")
    ELSE IF IsZero(amount_in) THEN Raise("Zero amount")
    ELSE AmountOutAfterFees(DecMul(amount_in, DecSub(FEE_SCALE, fee_rate)),
                            reserve_in, reserve_out)

get_amount_out(fee_rate, amount_in, reserve_in, reserve_out) ==
    IF IsZero(fee_rate)
    THEN Truncated(DecDiv(DecMul(reserve_out, amount_in),
                          DecAdd(reserve_in, amount_in)))
    ELSE IF DecCmp(fee_rate, MAX_FEE_RATE) > 0 THEN Raise("Invalid fee rate")
    ELSE IF IsZero(amount_in) THEN Raise("Zero amount")
    ELSE IF IsZero(reserve_in) \/ IsZero(reserve_out)
    THEN Raise("Reserves empty")
    ELSE AmountOutAfterFees(DecMul(amount_in, DecSub(FEE_SCALE, fee_rate)),
                            reserve_in, reserve_out)

get_amount_in(fee_rate, amount_out, reserve_in, reserve_out) ==
    IF DecCmp(fee_rate, MAX_FEE_RATE) > 0 THEN Raise("Invalid fee rate")
    ELSE IF IsZero(amount_out) THEN Raise("Zero amount")
    ELSE IF IsZero(reserve_in) \/ IsZero(reserve_out)
    THEN Raise("Reserves empty")
    ELSE U64Checked(Plus(Truncated(
             AmountInQuotient(fee_rate, amount_out, reserve_in, reserve_out)),
             1))

---------------------------------------------------------------------------
(* dipcoin/utils.py. A str is the sequence of its code points, bytes are   *)
(* sequences of 0..255.                                                    *)

\* str.encode('utf-8') of one code point
Utf8Char(cp) ==
    IF cp < 128 THEN <<cp>>
    ELSE IF cp < 2048 THEN <<192 + (cp \div 64), 128 + (cp % 64)>>
    ELSE IF cp < 65536
    THEN <<224 + (cp \div 4096), 128 + ((cp \div 64) % 64), 128 + (cp % 64)>>
    ELSE <<240 + (cp \div 262144), 128 + ((cp \div 4096) % 64),
           128 + ((cp \div 64) % 64), 128 + (cp % 64)>>

\* str.encode('utf-8') of characters lo..hi
RECURSIVE Utf8Range(_, _, _)
Utf8Range(str, lo, hi) ==
    IF lo > hi THEN <<>>
    ELSE IF lo = hi THEN Utf8Char(str[lo])
    ELSE LET mid == (lo + hi) \div 2
         IN  Utf8Range(str, lo, mid) \o Utf8Range(str, mid + 1, hi)

Utf8(str) == Utf8Range(str, 1, Len(str))

\* the ULEB128 bytes of a length
RECURSIVE Uleb128(_)
Uleb128(n) ==
    IF n < 128 THEN <<n>> ELSE <<128 + (n % 128)>> \o Uleb128(n \div 128)

\* canoser's StrT.encode: the byte length, then the UTF-8 bytes
StrT_encode(str) == Uleb128(Len(Utf8(str))) \o Utf8(str)

\* compare_u8_vector answering at the first index with left <= right
compare_u8_vector_or_equal(left, right) ==
    LET n == Min(Len(left), Len(right))
    IN  IF n > 0 THEN left[1] <= right[1]
        ELSE Len(left) < Len(right)

compare_u8_vector(left, right) ==
    LET n    == Min(Len(left), Len(right))
        diff == {idx \in 1..n : left[idx] # right[idx]}
        idx  == CHOOSE i \in diff : \A j \in diff : i <= j
    IN  IF diff # {} THEN left[idx] < right[idx]
        ELSE Len(left) < Len(right)

is_type_x_smaller_than_type_y(type_x, type_y) ==
    compare_u8_vector(StrT_encode(type_x), StrT_encode(type_y))

sort_type(coin_x_type, coin_y_type) ==
    IF is_type_x_smaller_than_type_y(coin_x_type, coin_y_type)
    THEN <<coin_x_type, coin_y_type>>
    ELSE <<coin_y_type, coin_x_type>>

\* str.startswith('0x')
StartsWith0x(str) == Len(str) >= 2 /\ str[1] = 48 /\ str[2] = 120

\* the identifier without a leading "0x"
StripPrefix(str) ==
    IF StartsWith0x(str) THEN SubSeq(str, 3, Len(str)) ELSE str

\* f"LP-{first}-{second}"
LpName(first, second) == <<76, 80, 45>> \o first \o <<45>> \o second

\* format_lp_name once the prefixes are stripped: the stripped identifiers
\* are the ones compared
FormatStripped(coin_x_type, coin_y_type) ==
    IF is_type_x_smaller_than_type_y(coin_x_type, coin_y_type)
    THEN LpName(coin_x_type, coin_y_type)
    ELSE LpName(coin_y_type, coin_x_type)

format_lp_name(coin_x_type, coin_y_type) ==
    FormatStripped(StripPrefix(coin_x_type), StripPrefix(coin_y_type))

---------------------------------------------------------------------------
(* The pricing engine as a state machine: a caller holds four arguments,   *)
(* calls one of the three functions on them, and may feed an amount it was *)
(* quoted back as the amount argument of its next call.                    *)

VARIABLES args, call, prev, ncalls, chain, pc, frame, txn, log

\* the state of a trading operation of the client and of the chain it talks
\* to; the pure functions leave it alone
clientVars == <<chain, pc, frame, txn, log>>

vars == <<args, call, prev, ncalls, chain, pc, frame, txn, log>>

\* no trading operation is running
ClientIdle ==
    /\ chain = <<>>
    /\ pc = "idle"
    /\ frame = <<>>
    /\ txn = <<>>
    /\ log = <<>>

\* largest small amount, reserve or fee rate drawn
MaxAmount == 3

\* calls in one run
MaxCalls == 2

\* first arguments: small values, and fee rates up to and beyond the maximum
FirstArgs == (0..MaxAmount) \cup {30, 5000, 10000, 10001}

SmallInputs ==
    {<<DecOfInt(f), DecOfInt(a), DecOfInt(x), DecOfInt(y)>> :
        f \in FirstArgs, a \in 0..MaxAmount,
        x \in 0..MaxAmount, y \in 0..MaxAmount}

DecOfGroups(g) == DecOfDigits(NGroups(g))

U64Args(a1, a2, a3, a4) ==
    <<DecOfGroups(a1), DecOfGroups(a2), DecOfGroups(a3), DecOfGroups(a4)>>

\* arguments at the scale of the pool's u64 fields
LargeInputs ==
    { U64Args(<<30>>, <<100000>>, <<1000000>>, <<2000000>>),
      U64Args(<<30>>, <<181322>>, <<1000000>>, <<2000000>>),
      U64Args(<<1000000>>, <<1000000>>, <<>>, <<>>),
      U64Args(<<30>>, <<2>>, <<18, 446744073, 709551615>>, <<3>>),
      U64Args(<<5000>>, <<3, 119042108, 351480394>>,
              <<1, 559521054, 175740197>>, <<14, 922715845, 931110130>>),
      U64Args(<<>>, <<4, 115156682, 526962518>>,
              <<6, 305915565, 249926241>>, <<10, 421072247, 776888759>>),
      U64Args(<<>>, <<6, 268458691, 534963804>>,
              <<11, 807252610, 878426761>>, <<18, 75711302, 413390565>>),
      U64Args(<<>>, <<9, 321452906, 448360367>>,
              <<4, 308160124, 110455844>>, <<13, 629613030, 558816211>>),
      U64Args(<<8, 304654565, 950428286>>, <<5, 978282838, 136200990>>,
              <<470, 438337949>>, <<338, 655078285>>) }

Inputs == SmallInputs \cup LargeInputs

NoCall == [fn |-> "none", args |-> <<>>, out |-> Return(<<>>)]

Init ==
    /\ args \in Inputs
    /\ call = NoCall
    /\ prev = NoCall
    /\ ncalls = 0
    /\ ClientIdle

Called(fn, out) ==
    /\ ncalls < MaxCalls
    /\ call' = [fn |-> fn, args |-> args, out |-> out]
    /\ prev' = call
    /\ ncalls' = ncalls + 1
    /\ UNCHANGED args
    /\ UNCHANGED clientVars

CallGetAmountOut ==
    Called("get_amount_out",
           get_amount_out(args[1], args[2], args[3], args[4]))

CallGetAmountIn ==
    Called("get_amount_in",
           get_amount_in(args[1], args[2], args[3], args[4]))

CallCalcOptimalCoinValues ==
    Called("calc_optimal_coin_values",
           calc_optimal_coin_values(args[1], args[2], args[3], args[4]))

\* the amount a swap quote returned becomes the amount of the next call
FeedBack ==
    /\ call.fn \in {"get_amount_out", "get_amount_in"}
    /\ call.out.exc = ""
    /\ call.args = args
    /\ ncalls < MaxCalls
    /\ args' = [args EXCEPT ![2] = call.out.val]
    /\ UNCHANGED <<call, prev, ncalls>>
    /\ UNCHANGED clientVars

Next ==
    \/ CallGetAmountOut
    \/ CallGetAmountIn
    \/ CallCalcOptimalCoinValues
    \/ FeedBack

Spec == Init /\ [][Next]_vars

---------------------------------------------------------------------------
(* Exact integer arithmetic, the reference the properties compare with.    *)

TenThousand == NFromInt(10000)

IsPositive(d) == Sgn(d) = 1

IsNonNegative(d) == Sgn(d) >= 0

AtLeast(d, n) == DecCmp(d, DecOfInt(n)) >= 0

AtMost(d, n) == DecCmp(d, DecOfInt(n)) <= 0

\* the outcome "returned the integer with digits n"
ReturnedNat(n) == Return(Dec(0, n, 0))

\* the exact product and the exact absolute difference of two Decimals
ExactProduct(a, b) ==
    Dec((a.sign + b.sign) % 2, NMul(a.int, b.int), a.exp + b.exp)

AbsDifference(a, b) ==
    LET d == DecSum(a, DecNeg(b)) IN Dec(0, d.int, d.exp)

IsWhole(d) == DecCmp(ToInt(d), d) = 0

\* floor(netIn * reserveOut / (reserveIn * 10000 + netIn)),
\* netIn = amountIn * (10000 - feeRate)
FloorAmountOut(f, a, ri, ro) ==
    LET netIn == NMul(a.int, NSub(TenThousand, f.int))
    IN  NDiv(NMul(netIn, ro.int), NAdd(NMul(ri.int, TenThousand), netIn))

\* (reserveOut - amountOut) * (10000 - feeRate)
AmountInDivisor(f, b, ro) ==
    NMul(NSub(ro.int, b.int), NSub(TenThousand, f.int))

\* floor(reserveIn * amountOut * 10000 / divisor) + 1
FloorAmountInPlusOne(f, b, ri, ro) ==
    NAdd(NDiv(NMul(NMul(ri.int, b.int), TenThousand),
              AmountInDivisor(f, b, ro)),
         <<1>>)

\* floor(reserveOut * amountIn / (reserveIn + amountIn))
FloorNoFeeAmountOut(a, ri, ro) ==
    NDiv(NMul(ro.int, a.int), NAdd(ri.int, a.int))

\* the integer optimal deposit
FloorOptimalDeposit(xD, yD, rX, rY) ==
    LET yR == NDiv(NMul(xD.int, rY.int), rX.int)
        xR == NDiv(NMul(yD.int, rX.int), rY.int)
    IN  IF rX.int = <<>> /\ rY.int = <<>> THEN <<xD.int, yD.int>>
        ELSE IF NCmp(yR, yD.int) <= 0 THEN <<xD.int, yR>>
        ELSE <<xR, yD.int>>

\* the last call was fn
Last(fn) == call.fn = fn

\* the last two calls were first and then second, the second on the first's
\* arguments with the amount replaced by what the first returned
RoundTrip(first, second) ==
    /\ prev.fn = first
    /\ call.fn = second
    /\ prev.out.exc = ""
    /\ call.args = [prev.args EXCEPT ![2] = prev.out.val]

---------------------------------------------------------------------------
(* Properties of the pricing engine.                                       *)

\* C1: for every feeRate in 1..10000 and positive amountIn, reserveIn and
\* reserveOut, get_amount_out returns exactly
\* floor(netIn * reserveOut / (reserveIn * 10000 + netIn)).
C1_AmountOutIsExactFloor ==
    (/\ Last("get_amount_out")
     /\ AtLeast(call.args[1], 1) /\ AtMost(call.args[1], 10000)
     /\ IsPositive(call.args[2])
     /\ IsPositive(call.args[3]) /\ IsPositive(call.args[4]))
    => call.out = ReturnedNat(FloorAmountOut(call.args[1], call.args[2],
                                             call.args[3], call.args[4]))

\* C2: for every feeRate in 0..10000, positive reserves and
\* 0 < amountOut < reserveOut, get_amount_in returns exactly
\* floor(reserveIn * amountOut * 10000 / ((reserveOut - amountOut) *
\* (10000 - feeRate))) + 1, or fails with Overflow when that exceeds
\* 2^64 - 1, and fails in no other way.
C2_AmountInIsExactFloorPlusOne ==
    (/\ Last("get_amount_in")
     /\ IsNonNegative(call.args[1]) /\ AtMost(call.args[1], 10000)
     /\ IsPositive(call.args[3]) /\ IsPositive(call.args[4])
     /\ IsPositive(call.args[2]) /\ DecCmp(call.args[2], call.args[4]) < 0)
    => /\ call.out.exc \in {"", "U64 overflow"}
       /\ AmountInDivisor(call.args[1], call.args[2], call.args[4]) # <<>>
          => LET ref == FloorAmountInPlusOne(call.args[1], call.args[2],
                                             call.args[3], call.args[4])
             IN  IF NCmp(ref, U64_MAX.int) > 0
                 THEN call.out.exc = "U64 overflow"
                 ELSE call.out = ReturnedNat(ref)

\* C3: get_amount_in fails with InsufficientLiquidity whenever
\* amountOut >= reserveOut (feeRate <= 10000, amountOut > 0, reserves > 0).
C3_InsufficientLiquidityRaised ==
    (/\ Last("get_amount_in")
     /\ IsNonNegative(call.args[1]) /\ AtMost(call.args[1], 10000)
     /\ IsPositive(call.args[2])
     /\ IsPositive(call.args[3]) /\ IsPositive(call.args[4])
     /\ DecCmp(call.args[2], call.args[4]) >= 0)
    => call.out.exc = "InsufficientLiquidity"

\* C4: for feeRate in 0..9999, positive reserves and 0 < b < reserveOut,
\* the input computed for b buys at least b:
\* get_amount_out(feeRate, get_amount_in(feeRate, b, ..), ..) >= b.
C4_ComputedInputBuysRequestedOutput ==
    (/\ RoundTrip("get_amount_in", "get_amount_out")
     /\ IsNonNegative(prev.args[1]) /\ AtMost(prev.args[1], 9999)
     /\ IsPositive(prev.args[3]) /\ IsPositive(prev.args[4])
     /\ IsPositive(prev.args[2]) /\ DecCmp(prev.args[2], prev.args[4]) < 0)
    => /\ call.out.exc = ""
       /\ DecCmp(call.out.val, prev.args[2]) >= 0

InExactRange(a) ==
    \A i \in 2..4 : Len(a[i].int) <= 7

C5_Preconditions ==
    /\ RoundTrip("get_amount_out", "get_amount_in")
    /\ IsNonNegative(prev.args[1]) /\ AtMost(prev.args[1], 10000)
    /\ IsPositive(prev.args[3]) /\ IsPositive(prev.args[4])
    /\ IsPositive(prev.args[2])
    /\ InExactRange(prev.args)
    /\ IsPositive(prev.out.val)

C6_OptimalDepositIsInteger ==
    (/\ Last("calc_optimal_coin_values")
     /\ \A i \in 1..4 : IsNonNegative(call.args[i])
     /\ IsZero(call.args[3]) <=> IsZero(call.args[4]))
    => LET ref == FloorOptimalDeposit(call.args[1], call.args[2],
                                      call.args[3], call.args[4])
       IN  /\ call.out.exc = ""
           /\ IsWhole(call.out.val[1]) /\ IsWhole(call.out.val[2])
           /\ DecCmp(call.out.val[1], Dec(0, ref[1], 0)) = 0
           /\ DecCmp(call.out.val[2], Dec(0, ref[2], 0)) = 0

\* C7: for positive reserves and desired amounts >= 0,
\* calc_optimal_coin_values never fails and returns (Ux, Uy) with Ux <= Dx,
\* Uy <= Dy and the pool ratio kept to within one unit of the computed
\* side: |Uy - Ux*Ry/Rx| < 1 when Ux = Dx, |Ux - Uy*Rx/Ry| < 1 when Uy = Dy.
C7_OptimalDepositWithinDesired ==
    (/\ Last("calc_optimal_coin_values")
     /\ IsNonNegative(call.args[1]) /\ IsNonNegative(call.args[2])
     /\ IsPositive(call.args[3]) /\ IsPositive(call.args[4]))
    => /\ call.out.exc = ""
       /\ LET Dx == call.args[1]
              Dy == call.args[2]
              Rx == call.args[3]
              Ry == call.args[4]
              Ux == call.out.val[1]
              Uy == call.out.val[2]
              gap == AbsDifference(ExactProduct(Uy, Rx), ExactProduct(Ux, Ry))
          IN  /\ DecCmp(Ux, Dx) <= 0
              /\ DecCmp(Uy, Dy) <= 0
              /\ \/ DecCmp(Ux, Dx) = 0 /\ DecCmp(gap, Rx) < 0
                 \/ DecCmp(Uy, Dy) = 0 /\ DecCmp(gap, Ry) < 0

\* C8: get_amount_out (feeRate # 0) and get_amount_in reject degenerate
\* inputs in this precedence: InvalidFeeRate if feeRate > 10000; otherwise
\* ZeroAmount if the amount is 0; otherwise EmptyReserves if a reserve is 0.
C8_ValidationPrecedence ==
    (\/ Last("get_amount_in")
     \/ Last("get_amount_out") /\ ~IsZero(call.args[1]))
    => /\ ~AtMost(call.args[1], 10000) => call.out.exc = "Invalid fee rate"
       /\ (AtMost(call.args[1], 10000) /\ IsZero(call.args[2]))
          => call.out.exc = "Zero amount"
       /\ (/\ AtMost(call.args[1], 10000)
           /\ ~IsZero(call.args[2])
           /\ IsZero(call.args[3]) \/ IsZero(call.args[4]))
          => call.out.exc = "Reserves empty"

\* a zero amount together with an empty reserve was rejected as ZeroAmount
C8_Witness ==
    /\ Last("get_amount_out")
    /\ ~IsZero(call.args[1])
    /\ AtMost(call.args[1], 10000)
    /\ IsZero(call.args[2])
    /\ IsZero(call.args[3])
    /\ call.out.exc = "Zero amount"

\* C9: with feeRate = 0, get_amount_out returns exactly
\* floor(reserveOut * amountIn / (reserveIn + amountIn)), also for
\* amountIn = 0 or a zero reserve (reserveIn + amountIn > 0), never failing
\* with ZeroAmount or EmptyReserves.
C9_ZeroFeeIsExactNoFeeFormula ==
    (/\ Last("get_amount_out")
     /\ IsZero(call.args[1])
     /\ \A i \in 2..4 : IsNonNegative(call.args[i])
     /\ IsPositive(call.args[2]) \/ IsPositive(call.args[3]))
    => call.out = ReturnedNat(FloorNoFeeAmountOut(call.args[2], call.args[3],
                                                  call.args[4]))

---------------------------------------------------------------------------
(* The token ordering as a state machine: a caller holds two token type    *)
(* identifiers, compares or sorts them, and may pass them in the other     *)
(* order.                                                                  *)

\* longest short identifier drawn
MaxLen == 3

\* the characters '0', 'x' and U+00E9 (two bytes in UTF-8)
Alphabet == {48, 120, 233}

Strings(n) == UNION {[1..k -> Alphabet] : k \in 0..n}

ShortTypes == {SubSeq(str, 1, Len(str)) : str \in Strings(MaxLen)}

Repeat(cp, n) == SubSeq([i \in 1..n |-> cp], 1, n)

\* identifiers around the lengths at which the length prefix grows a byte
LongTypes ==
    {Repeat(120, 127), Repeat(120, 128), Repeat(120, 129), Repeat(48, 129),
     Repeat(233, 64), Repeat(120, 256)}

TypePairs == (ShortTypes \X ShortTypes) \cup (LongTypes \X LongTypes)

InitSort ==
    /\ args \in TypePairs
    /\ call = NoCall
    /\ prev = NoCall
    /\ ncalls = 0
    /\ ClientIdle

CallIsTypeXSmallerThanTypeY ==
    Called("is_type_x_smaller_than_type_y",
           Return(is_type_x_smaller_than_type_y(args[1], args[2])))

CallSortType ==
    Called("sort_type", Return(sort_type(args[1], args[2])))

CallFormatLpName ==
    Called("format_lp_name", Return(format_lp_name(args[1], args[2])))

\* the caller names the same two tokens in the other order
SwapArguments ==
    /\ call.fn # "none"
    /\ call.args = args
    /\ ncalls < MaxCalls
    /\ args' = <<args[2], args[1]>>
    /\ UNCHANGED <<call, prev, ncalls>>
    /\ UNCHANGED clientVars

NextSort ==
    \/ CallIsTypeXSmallerThanTypeY
    \/ CallSortType
    \/ CallFormatLpName
    \/ SwapArguments

SpecSort == InitSort /\ [][NextSort]_vars

\* the last two calls were fn on two distinct identifiers, in both orders
BothOrders(fn) ==
    /\ prev.fn = fn
    /\ call.fn = fn
    /\ call.args = <<prev.args[2], prev.args[1]>>
    /\ prev.args[1] # prev.args[2]

\* C10: for two distinct token identifiers exactly one of is_less(x, y),
\* is_less(y, x) holds, and sort_type(x, y) = sort_type(y, x).
C10_SortIndependentOfArgumentOrder ==
    /\ BothOrders("is_type_x_smaller_than_type_y")
       => call.out.val # prev.out.val
    /\ BothOrders("sort_type")
       => call.out.val = prev.out.val

\* two identifiers of different lengths were sorted in both orders
C10_Witness ==
    /\ BothOrders("sort_type")
    /\ Len(prev.args[1]) # Len(prev.args[2])
    /\ call.out.val = prev.out.val

\* the LP name built from the canonical pair of the original identifiers
CanonicalLpName(pair) == LpName(StripPrefix(pair[1]), StripPrefix(pair[2]))

\* C11: for two distinct token identifiers x and y, format_lp_name(x, y) is
\* "LP-" + X' + "-" + Y' where (X, Y) = sort_type(x, y) and X', Y' are X, Y
\* without a leading "0x": the LP name lists its members in the canonical
\* order of the original identifiers, also when only one carries "0x".
C11_LpNameInCanonicalOrder ==
    (Last("format_lp_name") /\ call.args[1] # call.args[2])
    => call.out.val = CanonicalLpName(sort_type(call.args[1], call.args[2]))

---------------------------------------------------------------------------
(* dipcoin/types.py: the Pool model. A Python number is its type and its   *)
(* value; the value is held as a sign, digits and an exponent.             *)

PyInt(d) == [type |-> "int", val |-> d]

PyFloat(d) == [type |-> "float", val |-> d]

\* the int annotation of a field (pydantic, before the field validator): an
\* int passes, a float passes as an int when it has no fractional part
IntField(v) ==
    IF v.type = "int" THEN Return(v)
    ELSE IF IsWhole(v.val) THEN Return(PyInt(ToInt(v.val)))
    ELSE Raise("int_from_float")

\* validate_u64 without the upper limit
validate_u64_no_upper_limit(v) ==
    IF v.type # "int" \/ Sgn(v.val) < 0
    THEN Raise("Value must be an U64 integer")
    ELSE Return(v)

validate_u64(v) ==
    IF v.type # "int" \/ Sgn(v.val) < 0 \/ DecCmp(v.val, U64_MAX) > 0
    THEN Raise("Value must be an U64 integer")
    ELSE Return(v)

\* one numeric field: the annotation, then the validator on what it passed
ValidatedField(parsed) ==
    IF parsed.exc # "" THEN parsed ELSE validate_u64(parsed.val)

\* the numeric fields of a Pool, in the order of their declaration
PoolFields ==
    <<"bal_x", "bal_y", "fee_bal_x", "fee_bal_y", "lp_supply", "fee_rate",
      "min_liquidity">>

\* the outcomes of the fields of a construction
FieldOutcomes(values) ==
    [i \in DOMAIN PoolFields |-> ValidatedField(IntField(values[i]))]

\* Pool(...): the model exists when every field passed
PoolOf(outcomes) ==
    IF \E i \in DOMAIN outcomes : outcomes[i].exc # ""
    THEN Raise("ValidationError")
    ELSE Return([i \in DOMAIN outcomes |-> outcomes[i].val])

Pool(values) == PoolOf(FieldOutcomes(values))

---------------------------------------------------------------------------
(* Python floats. A float is held as the exact decimal expansion of the    *)
(* IEEE 754 double it is; an operation on floats rounds its exact result   *)
(* to the nearest double, ties to even.                                    *)

\* b^k by repeated squaring
RECURSIVE NPow(_, _)
NPow(b, k) ==
    IF k = 0 THEN <<1>>
    ELSE IF k % 2 = 0 THEN NPow(NMul(b, b), k \div 2)
    ELSE NMul(b, NPow(NMul(b, b), k \div 2))

\* the least k in lo..hi with n * 2^k >= d * 2^52 (there is one)
RECURSIVE BinaryExponent(_, _, _, _)
BinaryExponent(n, d, lo, hi) ==
    IF lo = hi THEN lo
    ELSE LET mid == (lo + hi) \div 2
         IN  IF NCmp(NMul(n, NPow(<<2>>, mid)), NMul(d, NPow(<<2>>, 52))) >= 0
             THEN BinaryExponent(n, d, lo, mid)
             ELSE BinaryExponent(n, d, mid + 1, hi)

\* qr.q + 1 when the remainder qr.r of the division by d is above half of
\* d, or is half of d and qr.q is odd; else qr.q
RoundHalfEven(qr, d) ==
    LET c == NCmp(NMulDigit(qr.r, 2), d)
    IN  IF c > 0 \/ (c = 0 /\ qr.q[Len(qr.q)] % 2 = 1)
        THEN NAdd(qr.q, <<1>>) ELSE qr.q

\* the double m / 2^k as a Decimal: m * 5^k / 10^k without trailing zeros
DoubleOfMantissa(sign, m, k) ==
    LET ce == DecStripTo(NMul(m, NPow(<<5>>, k)), -k, 0)
    IN  Dec(sign, ce.int, ce.exp)

\* the double nearest to n / d, 2^-75 <= n / d < 2^53, with 53 bits of
\* mantissa m = round(n * 2^k / d)
NearestDouble(sign, n, d, k) ==
    DoubleOfMantissa(sign, RoundHalfEven(NDivMod(NMul(n, NPow(<<2>>, k)), d), d), k)

\* the double nearest to the number x
RoundToDouble(x) ==
    IF IsZero(x) THEN DecZero
    ELSE NearestDouble(x.sign,
                       NShift(x.int, Max(x.exp, 0)),
                       NShift(<<1>>, Max(-x.exp, 0)),
                       BinaryExponent(NShift(x.int, Max(x.exp, 0)),
                                      NShift(<<1>>, Max(-x.exp, 0)), 0, 127))

\* the float a literal denotes
Float(literal) == RoundToDouble(literal)

\* float.__sub__
FloatSub(a, b) == RoundToDouble(DecSum(a, DecNeg(b)))

---------------------------------------------------------------------------
(* dipcoin/client.py: the slippage bounds.                                 *)

\* Decimal(1.0 - slippage): the subtraction is in floats, the conversion of
\* its result to Decimal is exact
SlippageMultiplier(slippage) == FloatSub(DecOfInt(1), slippage)

\* int(expected * Decimal(1.0 - slippage))
min_amount(expected, slippage) ==
    ToInt(DecMul(expected, SlippageMultiplier(slippage)))

\* int(expected_amount_in / Decimal(1.0 - slippage))
max_amount_in(expected, slippage) ==
    Truncated(DecDiv(expected, SlippageMultiplier(slippage)))

---------------------------------------------------------------------------
(* Pool construction as a state machine: a caller holds seven field values *)
(* and constructs a Pool from them.                                        *)

\* 2^64
U64_MAX_Plus_One == DecSum(U64_MAX, DecOfInt(1))

\* 1.5 and 1.0
OneAndAHalf == Dec(0, <<1, 5>>, -1)

OnePointZero == Dec(0, <<1, 0>>, -1)

FieldValues ==
    {PyInt(DecOfInt(n)) : n \in 0..MaxAmount}
    \cup {PyInt(DecNeg(DecOfInt(1))), PyInt(U64_MAX), PyInt(U64_MAX_Plus_One),
          PyFloat(OneAndAHalf), PyFloat(OnePointZero),
          PyFloat(DecNeg(OneAndAHalf))}

\* constructions in which up to two fields depart from a valid pool
PoolInputs ==
    {[i \in DOMAIN PoolFields |->
        IF i = f1 THEN v1 ELSE IF i = f2 THEN v2 ELSE PyInt(DecOfInt(1))] :
        f1 \in DOMAIN PoolFields, f2 \in DOMAIN PoolFields,
        v1 \in FieldValues, v2 \in FieldValues}

InitPool ==
    /\ args \in PoolInputs
    /\ call = NoCall
    /\ prev = NoCall
    /\ ncalls = 0
    /\ ClientIdle

ConstructPool == Called("Pool", Pool(args))

NextPool == ConstructPool

SpecPool == InitPool /\ [][NextPool]_vars

\* the value is an integer v with 0 <= v <= 2^64 - 1
IsU64(v) ==
    /\ IsWhole(v.val)
    /\ Sgn(v.val) >= 0
    /\ DecCmp(v.val, U64_MAX) <= 0

\* C12: constructing a Pool succeeds if and only if each of the seven
\* numeric fields is an integer v with 0 <= v <= 2^64 - 1 (a negative value,
\* a value of 2^64 or more, or a non-integer value in any field is a
\* construction error), so every Pool that exists has all seven fields in
\* the u64 range.
C12_PoolExistsIffFieldsAreU64 ==
    Last("Pool")
    => /\ call.out.exc = "" <=> \A i \in DOMAIN PoolFields : IsU64(call.args[i])
       /\ call.out.exc = ""
          => \A i \in DOMAIN PoolFields :
                /\ call.out.val[i].type = "int"
                /\ IsU64(call.out.val[i])
                /\ DecCmp(call.out.val[i].val, call.args[i].val) = 0

\* a construction whose only fault is a field of 2^64 was rejected
C12_Witness ==
    /\ Last("Pool")
    /\ \E i \in DOMAIN PoolFields : call.args[i] = PyInt(U64_MAX_Plus_One)
    /\ \A i \in DOMAIN PoolFields :
          call.args[i] = PyInt(U64_MAX_Plus_One) \/ IsU64(call.args[i])
    /\ call.out.exc = "ValidationError"

---------------------------------------------------------------------------
(* The slippage bounds as a state machine: a caller holds an expected      *)
(* amount and a slippage that passed validation, and computes a bound.     *)

\* 0.0, 0.005 (DEFAULT_SLIPPAGE), 0.5 and 0.999
ValidSlippages ==
    {Float(DecZero), Float(Dec(0, <<5>>, -3)), Float(Dec(0, <<5>>, -1)),
     Float(Dec(0, <<9, 9, 9>>, -3))}

\* expected amounts: small quotes, quotes at the scale of the u64 fields,
\* and the deposit calc_optimal_coin_values quotes for (10, 10, 3, 1)
ExpectedAmounts ==
    {DecOfInt(n) : n \in 0..MaxAmount}
    \cup {DecOfInt(200), DecOfGroups(<<1, 0, 0>>), U64_MAX,
          calc_optimal_coin_values(DecOfInt(10), DecOfInt(10),
                                   DecOfInt(3), DecOfInt(1)).val[2]}

InitBounds ==
    /\ args \in ExpectedAmounts \X ValidSlippages
    /\ call = NoCall
    /\ prev = NoCall
    /\ ncalls = 0
    /\ ClientIdle

CallMinAmount == Called("min_amount", Return(min_amount(args[1], args[2])))

CallMaxAmountIn == Called("max_amount_in", max_amount_in(args[1], args[2]))

NextBounds ==
    \/ CallMinAmount
    \/ CallMaxAmountIn

SpecBounds == InitBounds /\ [][NextBounds]_vars

\* 1 - s in exact arithmetic
OneMinus(slippage) == DecSum(DecOfInt(1), DecNeg(slippage))

\* floor(a / b) in exact arithmetic, for a >= 0 and b > 0
ExactFloorQuotient(a, b) ==
    Dec(0, NDiv(NShift(a.int, Max(a.exp - b.exp, 0)),
                NShift(b.int, Max(b.exp - a.exp, 0))), 0)

\* C17: for every slippage s in [0, 1) the bound is never stricter than the
\* expected amount: the minimum is floor(expected * (1 - s)) <= expected,
\* the maximum is floor(expectedIn / (1 - s)) >= expectedIn, and at s = 0
\* the bound equals the expected amount exactly.
C17_BoundNeverStricterThanExpected ==
    /\ Last("min_amount")
       => /\ DecCmp(call.out.val,
                    ToInt(ExactProduct(call.args[1], OneMinus(call.args[2]))))
             = 0
          /\ DecCmp(call.out.val, call.args[1]) <= 0
          /\ IsZero(call.args[2]) => DecCmp(call.out.val, call.args[1]) = 0
    /\ Last("max_amount_in")
       => /\ call.out.exc = ""
          /\ DecCmp(call.out.val,
                    ExactFloorQuotient(call.args[1], OneMinus(call.args[2])))
             = 0
          /\ DecCmp(call.out.val, call.args[1]) >= 0
          /\ IsZero(call.args[2]) => DecCmp(call.out.val, call.args[1]) = 0

---------------------------------------------------------------------------
(* dipcoin/client.py: the trading operations. Amounts are Python ints; a   *)
(* coroutine runs from one await of a collaborator to the next.            *)

\* CONTRACT_CONSTANTS["testnet"]
CONTRACT_CONSTANTS ==
    [package_id |->
        "0xa21247f737d7ff2b2b2a03411f4693001b24ad2e217b863d1a3dbfadee9ddd3c",
     version_id |->
        "0xd4d49b0915459f013072d2c10139eeacac9865fedfc71108cc98565e446370fa",
     global_id |->
        "0x73ea415d3adb8c5ba4cc6322eaaf40f8d99ee54d979891df467ff478ba2154ff"]

\* Python's None, and the GraphQL answer for an object that does not exist
None == <<>>

\* the sorted pair and f"{package_id}::manage::LP<{new_type_x},
\* {new_type_y}>", the latter as its parts
sort_and_get_lp_type(package_id, type_x, type_y) ==
    Append(sort_type(type_x, type_y),
           <<package_id, "::manage::LP<", sort_type(type_x, type_y)[1], ", ",
             sort_type(type_x, type_y)[2], ">">>)

\* pool.<name> of a Pool
Field(pool, name) ==
    pool[CHOOSE i \in DOMAIN PoolFields : PoolFields[i] = name]

\* <number>.value: a Pool field is an int, and an int has no attribute
\* "value"
AttrValue(v) ==
    IF v.type \in {"int", "float"} THEN Raise("AttributeError")
    ELSE Return(v.value)

\* Decimal(str(n)) of a Python int
DecimalOfInt(n) == IF n < 0 THEN DecNeg(DecOfInt(-n)) ELSE DecOfInt(n)

\* the first exception among the outcomes, in the order of evaluation, or
\* the values
Evaluated(outcomes) ==
    IF \E i \in DOMAIN outcomes : outcomes[i].exc # ""
    THEN outcomes[CHOOSE i \in DOMAIN outcomes :
                     /\ outcomes[i].exc # ""
                     /\ \A j \in 1..(i - 1) : outcomes[j].exc = ""]
    ELSE Return([i \in DOMAIN outcomes |-> outcomes[i].val])

\* get_pool: the object read from the chain as a Pool, None when there is no
\* such object
get_pool(object) ==
    IF object = None THEN Return(None)
    ELSE IF Pool(object).exc # "" THEN Raise("Unknown error")
    ELSE Pool(object)

\* slippage >= 1.0 or slippage < 0.0, accepting 1.0
invalid_slippage_above_one(slippage) ==
    DecCmp(slippage, DecOfInt(1)) > 0 \/ Sgn(slippage) < 0

\* slippage >= 1.0 or slippage < 0.0
invalid_slippage(slippage) ==
    DecCmp(slippage, DecOfInt(1)) >= 0 \/ Sgn(slippage) < 0

\* add_liquidity from the pool read to the minimums: the reserves are read
\* as pool.bal_x.value and pool.bal_y.value
AddLiquidityBounds(reserves, coin_x_amount, coin_y_amount, slippage) ==
    IF reserves.exc # "" THEN reserves
    ELSE LET desired == calc_optimal_coin_values(DecimalOfInt(coin_x_amount),
                                                 DecimalOfInt(coin_y_amount),
                                                 reserves.val[1].val,
                                                 reserves.val[2].val)
         IN  IF desired.exc # "" THEN desired
             ELSE Return(<<min_amount(desired.val[1], slippage),
                           min_amount(desired.val[2], slippage)>>)

\* the pool fields a swap reads, in the order it reads them
SwapReads(pool, x_to_y) ==
    Evaluated(<<AttrValue(Field(pool, "fee_rate")),
                AttrValue(Field(pool, IF x_to_y THEN "bal_x" ELSE "bal_y")),
                AttrValue(Field(pool, IF x_to_y THEN "bal_y" ELSE "bal_x"))>>)

\* swap_exact_in from the split to min_amount_out
SwapExactInBound(reads, amount_in, slippage) ==
    IF reads.exc # "" THEN reads
    ELSE LET expected_amount_out ==
                 get_amount_out(reads.val[1].val, DecimalOfInt(amount_in),
                                reads.val[2].val, reads.val[3].val)
         IN  IF expected_amount_out.exc # "" THEN expected_amount_out
             ELSE Return(min_amount(expected_amount_out.val, slippage))

\* swap_exact_out from the pool read to max_amount_in
SwapExactOutBound(reads, amount_out, slippage) ==
    IF reads.exc # "" THEN reads
    ELSE LET expected_amount_in ==
                 get_amount_in(reads.val[1].val, DecimalOfInt(amount_out),
                               reads.val[2].val, reads.val[3].val)
         IN  IF expected_amount_in.exc # "" THEN expected_amount_in
             ELSE max_amount_in(expected_amount_in.val, slippage)

\* the int a whole non-negative Decimal is
RECURSIVE IntOfDigits(_, _)
IntOfDigits(digits, n) ==
    IF n = 0 THEN 0 ELSE 10 * IntOfDigits(digits, n - 1) + digits[n]

\* the loop of _split_coin without its break
RECURSIVE select_every_coin(_, _, _, _, _)
select_every_coin(coins, amount, idx, selected_coins, total_amount) ==
    IF idx > Len(coins)
    THEN [selected_coins |-> selected_coins, total_amount |-> total_amount]
    ELSE select_every_coin(coins, amount, idx + 1,
                           Append(selected_coins, coins[idx].coin_object_id),
                           total_amount + coins[idx].balance)

\* the loop of _split_coin from coin idx on: coins are taken in list order
\* until the total reaches the amount
RECURSIVE select_coins(_, _, _, _, _)
select_coins(coins, amount, idx, selected_coins, total_amount) ==
    IF idx > Len(coins)
    THEN [selected_coins |-> selected_coins, total_amount |-> total_amount]
    ELSE IF total_amount + coins[idx].balance >= amount
    THEN [selected_coins |-> Append(selected_coins, coins[idx].coin_object_id),
          total_amount   |-> total_amount + coins[idx].balance]
    ELSE select_coins(coins, amount, idx + 1,
                      Append(selected_coins, coins[idx].coin_object_id),
                      total_amount + coins[idx].balance)

\* _split_coin from the coin list it was answered to the coins it selected:
\* the check of the list, the loop and the check that follows it
SelectedCoins(coins, amount) ==
    IF Len(coins) = 0 THEN Raise("no coins available")
    ELSE LET selection == select_coins(coins, amount, 1, <<>>, 0)
         IN  IF selection.selected_coins = <<>>
                \/ selection.total_amount < amount
             THEN Raise("balance is not enough")
             ELSE Return(selection.selected_coins)

\* the except clause of an operation catching ValueError only
except_ValueError(e) ==
    IF e \in {"AttributeError", "Unknown error", "collaborator failure"}
    THEN Raise(e)
    ELSE Return([tx_id |-> "", status |-> FALSE, error |-> e])

\* the except clause of every operation: except Exception as e
except_Exception(e) == Return([tx_id |-> "", status |-> FALSE, error |-> e])

\* the commands of a transaction
MergeCommand(selected_coins) ==
    [cmd |-> "merge_coins", merge_to |-> Head(selected_coins),
     merge_from |-> Tail(selected_coins)]

SplitCommand(selected_coins, amount) ==
    [cmd |-> "split_coin", coin |-> Head(selected_coins),
     amounts |-> <<amount>>]

MoveCallCommand(entry_point, arguments, type_arguments) ==
    [cmd |-> "move_call",
     target |-> CONTRACT_CONSTANTS.package_id \o "::router::" \o entry_point,
     arguments |-> <<CONTRACT_CONSTANTS.version_id,
                     CONTRACT_CONSTANTS.global_id>> \o arguments,
     type_arguments |-> type_arguments]

\* the locals of an operation: the canonical pair, the amounts under it, the
\* pool read, the slippage bounds, the _split_coin calls still to make (coin
\* type and amount), the coins the running one selected and the split
\* results so far
Locals(coin_types, amounts) ==
    [coin_types |-> coin_types, amounts |-> amounts, pool |-> None,
     bounds |-> <<>>, requests |-> <<>>, selected_coins |-> <<>>,
     splits |-> <<>>]

\* add_liquidity up to its first await: the sort, the amounts swapped with
\* the tokens, the validation
AddLiquidityEntry(a) ==
    LET new_types == sort_type(a.coin_types[1], a.coin_types[2])
        amounts == IF new_types[1] # a.coin_types[1]
                   THEN <<a.amounts[2], a.amounts[1]>>
                   ELSE a.amounts
    IN  IF amounts[1] <= 0 \/ amounts[2] <= 0
        THEN Raise("Amount must be greater than 0")
        ELSE IF invalid_slippage(a.slippage)
        THEN Raise("Slippage must be less than 100% and greater than 0%")
        ELSE Return(Locals(new_types, amounts))

\* remove_liquidity up to its first await
RemoveLiquidityEntry(a) ==
    IF a.amounts[1] <= 0 THEN Raise("Amount must be greater than 0")
    ELSE Return(Locals(sort_and_get_lp_type(CONTRACT_CONSTANTS.package_id,
                                            a.coin_types[1], a.coin_types[2]),
                       a.amounts))

\* swap_exact_in and swap_exact_out up to their first await
SwapEntry(a) ==
    IF a.amounts[1] <= 0 THEN Raise("Amount must be greater than 0")
    ELSE IF invalid_slippage(a.slippage)
    THEN Raise("Slippage must be less than 100% and greater than 0%")
    ELSE Return(Locals(a.coin_types, a.amounts))

\* the locals once the bounds are computed and the _split_coin calls known
WithBounds(f, bounds, requests) ==
    IF bounds.exc # "" THEN bounds
    ELSE Return([f EXCEPT !.bounds = bounds.val, !.requests = requests])

\* the swap goes from the canonical X to the canonical Y
XToY(coin_types) == coin_types[1] = sort_type(coin_types[1], coin_types[2])[1]

\* an operation from the pool it read to its next await
AfterPool(a, f) ==
    CASE a.op = "add_liquidity" ->
           WithBounds(f,
               AddLiquidityBounds(
                   Evaluated(<<AttrValue(Field(f.pool, "bal_x")),
                               AttrValue(Field(f.pool, "bal_y"))>>),
                   f.amounts[1], f.amounts[2], a.slippage),
               <<[coin_type |-> f.coin_types[1], amount |-> f.amounts[1]],
                 [coin_type |-> f.coin_types[2], amount |-> f.amounts[2]]>>)
      [] a.op = "remove_liquidity" ->
           Return([f EXCEPT !.requests =
                      <<[coin_type |-> f.coin_types[3],
                         amount |-> f.amounts[1]]>>])
      [] a.op = "swap_exact_in" ->
           Return([f EXCEPT
                      !.coin_types = sort_type(a.coin_types[1], a.coin_types[2]),
                      !.requests = <<[coin_type |-> a.coin_types[1],
                                      amount |-> f.amounts[1]]>>])
      [] a.op = "swap_exact_out" ->
           LET max_amount_in_ ==
                   SwapExactOutBound(SwapReads(f.pool, XToY(a.coin_types)),
                                     f.amounts[1], a.slippage)
           IN  WithBounds([f EXCEPT !.coin_types =
                              sort_type(a.coin_types[1], a.coin_types[2])],
                   max_amount_in_,
                   <<[coin_type |-> a.coin_types[1],
                      amount |-> IntOfDigits(max_amount_in_.val.int,
                                             Len(max_amount_in_.val.int))]>>)

\* what get_pool answered, and the operation from there to its next await
PoolRead(a, f, answer) ==
    IF answer.exc # "" THEN answer
    ELSE IF answer.val = None THEN Raise("Failed to get pool info")
    ELSE AfterPool(a, [f EXCEPT !.pool = answer.val])

\* an operation from its last _split_coin to move_call
AfterSplits(a, f) ==
    IF a.op = "swap_exact_in"
    THEN WithBounds(f,
             SwapExactInBound(SwapReads(f.pool, XToY(a.coin_types)),
                              f.amounts[1], a.slippage),
             <<>>)
    ELSE Return(f)

\* the call descriptor of an operation
Descriptor(a, f) ==
    CASE a.op = "add_liquidity" ->
           MoveCallCommand("add_liquidity",
               <<a.pool_id, f.splits[1], f.bounds[1], f.splits[2],
                 f.bounds[2]>>,
               f.coin_types)
      [] a.op = "remove_liquidity" ->
           MoveCallCommand("remove_liquidity", <<a.pool_id, f.splits[1]>>,
                           <<f.coin_types[1], f.coin_types[2]>>)
      [] a.op = "swap_exact_in" ->
           MoveCallCommand(IF XToY(a.coin_types) THEN "swap_exact_x_to_y"
                           ELSE "swap_exact_y_to_x",
                           <<a.pool_id, f.splits[1], f.bounds>>,
                           f.coin_types)
      [] a.op = "swap_exact_out" ->
           MoveCallCommand(IF XToY(a.coin_types) THEN "swap_x_to_exact_y"
                           ELSE "swap_y_to_exact_x",
                           <<a.pool_id, f.splits[1], a.amounts[1]>>,
                           f.coin_types)

---------------------------------------------------------------------------
(* The client as a state machine. args is the call a caller makes, chain   *)
(* what the collaborators answer from, pc the await the running operation  *)
(* is suspended at, frame its locals, txn the commands of its transaction, *)
(* log the collaborator interactions it started, in order. A finished      *)
(* operation is recorded in call with its transaction and its log.         *)

TokenA == <<48, 120, 97>>

TokenB == <<48, 120, 98>>

\* the calls: both token orders, amounts from zero up, the slippages 0.0,
\* 0.005 (DEFAULT_SLIPPAGE), 1.0 and -0.5
ClientInputs ==
    LET Amounts == 0..MaxAmount
        Slippages == {Float(DecZero), Float(Dec(0, <<5>>, -3)),
                      Float(DecOfInt(1)), Float(Dec(1, <<5>>, -1))}
        TokenOrders == {<<TokenA, TokenB>>, <<TokenB, TokenA>>}
    IN  [op : {"add_liquidity"}, pool_id : {"0xpool"},
         coin_types : TokenOrders, amounts : Amounts \X Amounts,
         slippage : Slippages]
        \cup [op : {"remove_liquidity"}, pool_id : {"0xpool"},
              coin_types : TokenOrders, amounts : {<<a>> : a \in Amounts},
              slippage : {Float(Dec(0, <<5>>, -3))}]
        \cup [op : {"swap_exact_in", "swap_exact_out"}, pool_id : {"0xpool"},
              coin_types : TokenOrders, amounts : {<<a>> : a \in Amounts},
              slippage : Slippages]

\* the content of a pool object on the chain
PoolObject(bal_x, bal_y) ==
    <<PyInt(bal_x), PyInt(bal_y), PyInt(DecZero), PyInt(DecZero),
      PyInt(DecOfInt(1000)), PyInt(DecOfInt(30)), PyInt(DecOfInt(1000))>>

PoolBefore == PoolObject(DecOfInt(1000), DecOfInt(2000))

\* the coins of one type a GetCoins answer lists, in the answer's order
Coins(name, balances) ==
    [i \in DOMAIN balances |->
        [coin_object_id |-> <<name, i>>, balance |-> balances[i]]]

\* the answer of GetCoins for a coin type
CoinsOf(holdings, coin_type) ==
    IF coin_type = TokenA THEN holdings.a
    ELSE IF coin_type = TokenB THEN holdings.b
    ELSE holdings.lp

\* the chain holds no object under the pool id, a pool, or an object whose
\* content is no Pool; the owner holds one of two sets of coins
InitClient ==
    /\ args \in ClientInputs
    /\ call = NoCall
    /\ prev = NoCall
    /\ ncalls = 0
    /\ chain \in
          [object : {None, PoolBefore,
                     PoolObject(U64_MAX_Plus_One, DecOfInt(2000))},
           holdings :
               {[a |-> Coins("a", <<1, 2, 5>>), b |-> Coins("b", <<2>>),
                 lp |-> Coins("lp", <<1, 1, 1>>)],
                [a |-> <<>>, b |-> Coins("b", <<0, 2>>),
                 lp |-> Coins("lp", <<1, 1>>)]},
           digest : {"digest"}]
    /\ pc = "idle"
    /\ frame = <<>>
    /\ txn = <<>>
    /\ log = <<>>

\* the operation returns: what it returned is recorded with the transaction
\* it had built, the interactions it had started and the chain it ran on
Finish(out, locals) ==
    /\ call' = [fn |-> args.op, args |-> args, out |-> out, txn |-> txn,
                log |-> log, frame |-> locals, chain |-> chain]
    /\ prev' = call
    /\ ncalls' = ncalls + 1
    /\ pc' = "idle"
    /\ frame' = <<>>
    /\ txn' = <<>>
    /\ log' = <<>>
    /\ UNCHANGED <<args, chain>>

\* an exception reaches the except clause of the operation
Fail(e) == Finish(except_Exception(e), frame)

\* the operation runs on to its next await, or fails
Continue(outcome, next_pc, txn2) ==
    IF outcome.exc # "" THEN Fail(outcome.exc)
    ELSE /\ pc' = next_pc
         /\ frame' = outcome.val
         /\ txn' = txn2
         /\ log' = Append(log, next_pc)
         /\ UNCHANGED <<args, call, prev, ncalls, chain>>

add_liquidity ==
    /\ pc = "idle"
    /\ ncalls < MaxCalls
    /\ args.op = "add_liquidity"
    /\ Continue(AddLiquidityEntry(args), "get_pool", txn)

remove_liquidity ==
    /\ pc = "idle"
    /\ ncalls < MaxCalls
    /\ args.op = "remove_liquidity"
    /\ Continue(RemoveLiquidityEntry(args), "get_pool", txn)

swap_exact_in ==
    /\ pc = "idle"
    /\ ncalls < MaxCalls
    /\ args.op = "swap_exact_in"
    /\ Continue(SwapEntry(args), "get_pool", txn)

swap_exact_out ==
    /\ pc = "idle"
    /\ ncalls < MaxCalls
    /\ args.op = "swap_exact_out"
    /\ Continue(SwapEntry(args), "get_pool", txn)

\* get_pool answers; the operation runs to its first _split_coin
GetPool ==
    /\ pc = "get_pool"
    /\ \E answered \in BOOLEAN :
          Continue(IF answered
                   THEN PoolRead(args, frame, get_pool(chain.object))
                   ELSE Raise("collaborator failure"),
                   "get_coins", txn)

\* GetCoins answers; _split_coin runs to merge_coins or split_coin
GetCoins ==
    /\ pc = "get_coins"
    /\ \E answered \in BOOLEAN :
          LET request == Head(frame.requests)
              selection ==
                  IF answered
                  THEN SelectedCoins(CoinsOf(chain.holdings,
                                             request.coin_type),
                                     request.amount)
                  ELSE Raise("collaborator failure")
          IN  IF selection.exc # "" THEN Fail(selection.exc)
              ELSE IF Len(selection.val) > 1
              THEN Continue(Return([frame EXCEPT
                                       !.selected_coins = selection.val]),
                            "merge_coins",
                            Append(txn, MergeCommand(selection.val)))
              ELSE Continue(Return([frame EXCEPT
                                       !.selected_coins = selection.val]),
                            "split_coin",
                            Append(txn, SplitCommand(selection.val,
                                                     request.amount)))

MergeCoins ==
    /\ pc = "merge_coins"
    /\ \E answered \in BOOLEAN :
          Continue(IF answered THEN Return(frame)
                   ELSE Raise("collaborator failure"),
                   "split_coin",
                   Append(txn, SplitCommand(frame.selected_coins,
                                            Head(frame.requests).amount)))

\* the operation from the return of a _split_coin to its next await
Split(f) ==
    IF f.requests # <<>> THEN Continue(Return(f), "get_coins", txn)
    ELSE IF AfterSplits(args, f).exc # "" THEN Fail(AfterSplits(args, f).exc)
    ELSE Continue(AfterSplits(args, f), "move_call",
                  Append(txn, Descriptor(args, AfterSplits(args, f).val)))

\* split_coin answers: _split_coin returns the result of the command
SplitCoin ==
    /\ pc = "split_coin"
    /\ \E answered \in BOOLEAN :
          IF answered
          THEN Split([frame EXCEPT
                         !.splits = Append(@, [result_of |-> Len(txn)]),
                         !.requests = Tail(@),
                         !.selected_coins = <<>>])
          ELSE Fail("collaborator failure")

MoveCall ==
    /\ pc = "move_call"
    /\ \E answered \in BOOLEAN :
          Continue(IF answered THEN Return(frame)
                   ELSE Raise("collaborator failure"),
                   "build_and_sign", txn)

BuildAndSign ==
    /\ pc = "build_and_sign"
    /\ \E answered \in BOOLEAN :
          Continue(IF answered THEN Return(frame)
                   ELSE Raise("collaborator failure"),
                   "execute", txn)

ExecuteTransaction ==
    /\ pc = "execute"
    /\ \E answered \in BOOLEAN :
          IF answered
          THEN Finish(Return([tx_id |-> chain.digest, status |-> TRUE]),
                      frame)
          ELSE Fail("collaborator failure")

\* the reserves of the pool change on the chain
PoolChanges ==
    /\ chain.object = PoolBefore
    /\ chain' = [chain EXCEPT
                   !.object = PoolObject(DecOfInt(1100), DecOfInt(1900))]
    /\ UNCHANGED <<args, call, prev, ncalls, pc, frame, txn, log>>

\* the caller repeats the call with the tokens, and the amounts given with
\* them, in the other order
SwapTokenOrder ==
    /\ pc = "idle"
    /\ ncalls < MaxCalls
    /\ call.fn = args.op
    /\ call.args = args
    /\ args' = [args EXCEPT
                  !.coin_types = <<@[2], @[1]>>,
                  !.amounts = IF Len(@) = 2 THEN <<@[2], @[1]>> ELSE @]
    /\ UNCHANGED <<call, prev, ncalls, chain, pc, frame, txn, log>>

NextClient ==
    \/ add_liquidity
    \/ remove_liquidity
    \/ swap_exact_in
    \/ swap_exact_out
    \/ GetPool
    \/ GetCoins
    \/ MergeCoins
    \/ SplitCoin
    \/ MoveCall
    \/ BuildAndSign
    \/ ExecuteTransaction
    \/ PoolChanges
    \/ SwapTokenOrder

SpecClient == InitClient /\ [][NextClient]_vars

---------------------------------------------------------------------------
(* Claims about the trading operations                                     *)

TradingOperations ==
    {"add_liquidity", "remove_liquidity", "swap_exact_in", "swap_exact_out"}

\* the last call of the run was a trading operation, and it has returned
Traded == call.fn \in TradingOperations

\* the slippage lies in [0, 1)
InUnitInterval(slippage) ==
    /\ DecCmp(slippage, DecZero) >= 0
    /\ DecCmp(slippage, DecOfInt(1)) < 0

\* a call with an amount <= 0, or with a slippage outside [0, 1) where the
\* operation takes one
InvalidCall(a) ==
    \/ \E i \in DOMAIN a.amounts : a.amounts[i] <= 0
    \/ a.op # "remove_liquidity" /\ ~InUnitInterval(a.slippage)

Submitted(c) == \E i \in DOMAIN c.log : c.log[i] = "execute"

RECURSIVE TotalBalance(_, _)
TotalBalance(coins, n) ==
    IF n = 0 THEN 0 ELSE TotalBalance(coins, n - 1) + coins[n].balance

\* the owner holds at least the amount of the coin type
Affordable(holdings, coin_type, amount) ==
    TotalBalance(CoinsOf(holdings, coin_type),
                 Len(CoinsOf(holdings, coin_type))) >= amount

\* no collaborator failed during the finished operation c
Answered(c) ==
    c.out.exc = "" /\ (c.out.val.status
                       \/ c.out.val.error # "collaborator failure")

\* the entry-point calls in the transaction of the finished operation c
MoveCalls(c) == SelectSeq(c.txn, LAMBDA e : e.cmd = "move_call")

\* the call a made with the tokens, and their amounts, in the other order
Swapped(a) ==
    [a EXCEPT !.coin_types = <<@[2], @[1]>>, !.amounts = <<@[2], @[1]>>]

\* the amount the caller gave with a token
AmountOf(a, token) ==
    a.amounts[CHOOSE i \in DOMAIN a.coin_types : a.coin_types[i] = token]

\* the argument is the result of a split of exactly the amount from a coin
\* of the coin type
IsSplitOf(c, argument, coin_type, amount) ==
    /\ argument \in [result_of : DOMAIN c.txn]
    /\ c.txn[argument.result_of].cmd = "split_coin"
    /\ c.txn[argument.result_of].amounts = <<amount>>
    /\ \E i \in DOMAIN CoinsOf(c.chain.holdings, coin_type) :
          CoinsOf(c.chain.holdings, coin_type)[i].coin_object_id
              = c.txn[argument.result_of].coin

\* the router entry point
Target(entry_point) ==
    CONTRACT_CONSTANTS.package_id \o "::router::" \o entry_point

\* the descriptor d of c is the add_liquidity call of the claim
IsAddLiquidityDescriptor(c, d, canonical) ==
    /\ d.target = Target("add_liquidity")
    /\ d.type_arguments = canonical
    /\ Len(d.arguments) = 7
    /\ d.arguments[1] = CONTRACT_CONSTANTS.version_id
    /\ d.arguments[2] = CONTRACT_CONSTANTS.global_id
    /\ d.arguments[3] = c.args.pool_id
    /\ IsSplitOf(c, d.arguments[4], canonical[1],
                 AmountOf(c.args, canonical[1]))
    /\ IsSplitOf(c, d.arguments[6], canonical[2],
                 AmountOf(c.args, canonical[2]))

\* the last two calls are add_liquidity (pool, x, y, ax, ay, s) and
\* (pool, y, x, ay, ax, s) with valid arguments, against the same pool state
\* and holdings that cover both amounts, and every collaborator answered
AddLiquidityInBothOrders ==
    /\ Traded
    /\ call.fn = "add_liquidity"
    /\ prev.fn = "add_liquidity"
    /\ prev.args = Swapped(call.args)
    /\ ~InvalidCall(call.args)
    /\ prev.chain = call.chain
    /\ call.chain.object = PoolBefore
    /\ \A i \in DOMAIN call.args.coin_types :
          Affordable(call.chain.holdings, call.args.coin_types[i],
                     call.args.amounts[i])
    /\ Answered(call)
    /\ Answered(prev)

\* C15: add_liquidity called as (pool, x, y, ax, ay, s) and as
\* (pool, y, x, ay, ax, s) against the same pool state and holdings produces
\* the same call descriptor in both calls: the add_liquidity entry point,
\* arguments [version, global, pool id, split coin X, minX, split coin Y,
\* minY] with each amount attached to the same token in both calls, and the
\* canonical type arguments [X, Y].
C15_AddLiquidityDescriptorIgnoresTokenOrder ==
    AddLiquidityInBothOrders
        => /\ Len(MoveCalls(call)) = 1
           /\ Len(MoveCalls(prev)) = 1
           /\ MoveCalls(call)[1] = MoveCalls(prev)[1]
           /\ IsAddLiquidityDescriptor(
                  call, MoveCalls(call)[1],
                  sort_type(call.args.coin_types[1], call.args.coin_types[2]))

\* the reserve of the token a swap pays in, and of the token it pays out
ReserveIn(c) ==
    Field(c.chain.object,
          IF XToY(c.args.coin_types) THEN "bal_x" ELSE "bal_y").val

ReserveOut(c) ==
    Field(c.chain.object,
          IF XToY(c.args.coin_types) THEN "bal_y" ELSE "bal_x").val

\* floor(floor-quote * (1 - slippage)) in exact arithmetic
ExactMinOut(quote, slippage) ==
    ExactFloorQuotient(ExactProduct(Dec(0, quote, 0), OneMinus(slippage)),
                       DecOfInt(1))

\* the descriptor d of the swap_exact_in c is the call of the claim
IsSwapExactInDescriptor(c, d) ==
    /\ d.target = Target(IF XToY(c.args.coin_types) THEN "swap_exact_x_to_y"
                         ELSE "swap_exact_y_to_x")
    /\ d.type_arguments = sort_type(c.args.coin_types[1],
                                    c.args.coin_types[2])
    /\ Len(d.arguments) = 5
    /\ d.arguments[1] = CONTRACT_CONSTANTS.version_id
    /\ d.arguments[2] = CONTRACT_CONSTANTS.global_id
    /\ d.arguments[3] = c.args.pool_id
    /\ IsSplitOf(c, d.arguments[4], c.args.coin_types[1], c.args.amounts[1])
    /\ DecCmp(d.arguments[5],
              ExactMinOut(FloorAmountOut(Field(c.chain.object, "fee_rate").val,
                                         DecimalOfInt(c.args.amounts[1]),
                                         ReserveIn(c), ReserveOut(c)),
                          c.args.slippage)) = 0

\* the last call is a swap_exact_in with valid arguments on a pool with
\* reserves, the owner holds the amount, and every collaborator answered
SwapExactInServable ==
    /\ Traded
    /\ call.fn = "swap_exact_in"
    /\ ~InvalidCall(call.args)
    /\ call.chain.object = PoolBefore
    /\ Affordable(call.chain.holdings, call.args.coin_types[1],
                  call.args.amounts[1])
    /\ Answered(call)

\* C16: swap_exact_in with amountIn > 0, slippage in [0, 1), an existing
\* pool with reserves and enough coinIn builds and submits exactly one call:
\* swap_exact_x_to_y with reserves (balX, balY) iff coinIn is the canonical
\* X, swap_exact_y_to_x with (balY, balX) otherwise, arguments [version,
\* global, pool id, split coin in, minOut], minOut = floor(get_amount_out(
\* feeRate, amountIn, reserveIn, reserveOut) * (1 - slippage)), and the
\* sorted [X, Y] as type arguments.
C16_SwapExactInBuildsTheCall ==
    SwapExactInServable
        => /\ call.out.val.status
           /\ Len(MoveCalls(call)) = 1
           /\ IsSwapExactInDescriptor(call, MoveCalls(call)[1])

\* the finished operation c failed at a validation or computation step: it
\* failed, and not because a collaborator failed
FailedAtOwnStep(c) ==
    /\ c.out.exc = ""
    /\ ~c.out.val.status
    /\ c.out.val.error # "collaborator failure"

\* the merge and split commands in a transaction
SubOperations(commands) ==
    SelectSeq(commands, LAMBDA e : e.cmd \in {"merge_coins", "split_coin"})

\* C18: a failure at a validation or computation step of a trading
\* operation occurs before any merge or split was added to the transaction:
\* no operation that ended in such a failure had built a merge or a split.
C18_NoSubOperationBeforeAFailingStep ==
    Traded /\ FailedAtOwnStep(call) => SubOperations(call.txn) = <<>>

\* the running operation has started an interaction after its pool fetch
PastThePoolFetch == pc # "idle" /\ Len(log) > 1

\* C19: every trading operation fetches the pool itself, as its first
\* interaction, and works on the answer to that fetch; in the operations
\* that compute slippage bounds the pool fetch is the last interaction
\* before the bounds are computed: once a coin enumeration or any other
\* interaction has started after it, the bounds exist, computed from that
\* read.
C19_PoolFetchImmediatelyBeforeBounds ==
    /\ [](pc # "idle" => log # <<>> /\ log[1] = "get_pool")
    /\ [][pc = "get_pool" /\ pc' \notin {"idle", "get_pool"}
             => frame'.pool = get_pool(chain.object).val]_vars
    /\ [](PastThePoolFetch /\ args.op # "remove_liquidity"
             => frame.bounds # <<>>)

\* the length of the shortest prefix of the coins whose balances sum to at
\* least the amount, 0 when all of them together fall short
ShortestPrefix(coins, amount) ==
    IF TotalBalance(coins, Len(coins)) < amount THEN 0
    ELSE CHOOSE n \in DOMAIN coins :
            /\ TotalBalance(coins, n) >= amount
            /\ \A m \in 1..(n - 1) : TotalBalance(coins, m) < amount

\* the ids of coins m..n of a list
CoinIds(coins, m, n) ==
    [i \in 1..(n - m + 1) |-> coins[m + i - 1].coin_object_id]

\* the commands _split_coin issues for a request on a coin list of which
\* the first n are selected
ExpectedMerge(coins, n) ==
    [cmd |-> "merge_coins", merge_to |-> coins[1].coin_object_id,
     merge_from |-> CoinIds(coins, 2, n)]

ExpectedSplit(coins, amount) ==
    [cmd |-> "split_coin", coin |-> coins[1].coin_object_id,
     amounts |-> <<amount>>]

\* the sub-operations a _split_coin call has issued once the split is
\* requested: a merge first iff more than one coin is selected
ExpectedSubOperations(coins, amount, n) ==
    IF n > 1 THEN <<ExpectedMerge(coins, n), ExpectedSplit(coins, amount)>>
    ELSE <<ExpectedSplit(coins, amount)>>

\* the sub-operations of the running _split_coin call: those after the two
\* or one of each call that returned
RunningSubOperations(commands, returned) ==
    SelectSeq(SubSeq(commands, IF returned = <<>> THEN 1
                               ELSE returned[Len(returned)].result_of + 1,
                     Len(commands)),
              LAMBDA e : e.cmd \in {"merge_coins", "split_coin"})

\* the running _split_coin call, on coins of which the shortest sufficient
\* prefix has length n, has issued what the policy prescribes
FirstFit(coins, amount, n) ==
    /\ n > 0
    /\ pc = "merge_coins"
          => /\ n > 1
             /\ RunningSubOperations(txn, frame.splits)
                    = <<ExpectedMerge(coins, n)>>
    /\ pc = "split_coin"
          => RunningSubOperations(txn, frame.splits)
                 = ExpectedSubOperations(coins, amount, n)

\* the finished operation c failed for lack of coins
InsufficientBalance(c) ==
    /\ c.out.exc = ""
    /\ ~c.out.val.status
    /\ c.out.val.error \in {"no coins available", "balance is not enough"}

\* C20: _split_coin selects the shortest prefix of the coin list, in the
\* order the collaborator returned it, whose balances sum to at least the
\* amount; when all balances together fall short it fails for insufficient
\* balance without issuing a merge or a split; otherwise it issues a merge
\* into the first selected coin iff more than one coin is selected, then
\* the split of exactly the amount from that first coin.
C20_FirstFitPrefixMergedThenSplit ==
    /\ pc \in {"merge_coins", "split_coin"}
          => FirstFit(CoinsOf(chain.holdings, Head(frame.requests).coin_type),
                      Head(frame.requests).amount,
                      ShortestPrefix(CoinsOf(chain.holdings,
                                             Head(frame.requests).coin_type),
                                     Head(frame.requests).amount))
    /\ Traded /\ InsufficientBalance(call)
          => /\ ShortestPrefix(CoinsOf(call.chain.holdings,
                                       Head(call.frame.requests).coin_type),
                               Head(call.frame.requests).amount) = 0
             /\ RunningSubOperations(call.txn, call.frame.splits) = <<>>
    /\ Traded /\ call.log # <<>> /\ call.log[Len(call.log)] = "get_coins"
              /\ Answered(call)
          => InsufficientBalance(call)

\* a split of 3 is requested from the coin the coins of balance 1 and 2
\* were merged into, the coin of balance 5 left alone; and an operation has
\* failed because the listed coins fell short
C20_Witness ==
    /\ pc = "split_coin"
    /\ Head(frame.requests).amount = 3
    /\ Len(CoinsOf(chain.holdings, Head(frame.requests).coin_type)) = 3
    /\ Len(frame.selected_coins) = 2
    /\ Len(txn) = 2
    /\ txn[1].cmd = "merge_coins"
    /\ Len(txn[1].merge_from) = 1
    /\ txn[2].amounts = <<3>>
    /\ Traded
    /\ call.out.val.status = FALSE
    /\ call.out.val.error = "balance is not enough"

====
